---- MODULE Spec2Model ----
(***************************************************************************)
(* Model of kernel/arch/x86_64/serial.c (the serial interrupt-to-wakeup    *)
(* bridge) and kernel/arch/x86_64/user.c (privilege transitions, fatal     *)
(* halt, reboot).                                                          *)
(*                                                                         *)
(* Spec        the serial driver: serial_initialize, the two workers       *)
(*             (process_serial), the two interrupt handlers and the UARTs  *)
(* SpecOutput  tasks calling serial_write_out on the initialized driver    *)
(* SpecBringUp serial_device_create called for the four ports in any order *)
(* SpecFatal   arch_fatal called by any cores of a multi-core machine      *)
(* SpecEnter   arch_enter_user and arch_enter_signal_handler               *)
(* SpecReboot  arch_reboot against the keyboard controller                 *)
(***************************************************************************)
EXTENDS Integers, Sequences, FiniteSets, TLC

(* ------------------------------ bounds -------------------------------- *)

\* Bytes the environment sends to the UARTs in one behaviour.
MaxArrivals == 2

\* Cores of the machine.
MaxCores == 3

\* The recorded trap-entry stack pointers tried have a low 16-bit limb in
\* 0..MaxRspLow or in (2^16 - 1 - MaxRspLow)..(2^16 - 1).
MaxRspLow == 150

\* Page frames mmu_allocate_a_frame may return: 1..MaxFrame.
MaxFrame == 3

\* Tasks that call serial_write_out.
MaxWriters == 2

\* serial_write_out calls in one behaviour.
MaxSends == 2

(* ------------------------- serial.c constants ------------------------- *)

SERIAL_PORT_A == 1016
SERIAL_PORT_B == 760
SERIAL_PORT_C == 1000
SERIAL_PORT_D == 744

SERIAL_IRQ_AC == 4
SERIAL_IRQ_BD == 3

\* The values a received byte takes in the model ('A', 'B').
Bytes == {65, 66}

\* What a read of an I/O port with no device behind it returns (0xFF).
FloatingBus == 255

Ports == {SERIAL_PORT_A, SERIAL_PORT_B, SERIAL_PORT_C, SERIAL_PORT_D}

Lines == {SERIAL_IRQ_AC, SERIAL_IRQ_BD}

\* A NULL pty pointer.
NULL == 0

VARIABLES
    (* serial.c *)
    ipc,            \* position of serial_initialize: 0 not called .. 9 returned
    order,          \* the ports in the order serial_device_create is called
    pty,            \* _serial_port_pty_a..d, by port: NULL or the pty created
    ier,            \* UART interrupt enable register (port + 1), by port
    rx,             \* UART receive FIFO, by port
    have_installed, \* have_installed_ac / have_installed_bd, by IRQ line
    installs,       \* irq_install_handler calls received, by IRQ line
    irqPending,     \* interrupt controller: the line has an undelivered IRQ
    hpc,            \* position of serial_handler_ac / _bd, by IRQ line
    queue,          \* sem_serial_ac / sem_serial_bd: the waiters, by IRQ line
    wpc,            \* position of each process_serial worker, by IRQ line
    wport,          \* process_serial's local `port`
    wch,            \* process_serial's local `ch`
    ttyIn,          \* bytes passed to tty_input_process, by pty
    log,            \* the bytes the environment has sent: <<port, byte, idle>>,
                    \* idle when all ports were up and both workers Suspended
    fired,          \* handler invocations completed, by IRQ line
    wakes,          \* Suspended -> Draining transitions, by IRQ line
    owed,           \* both ports, when both were pending at the last wake,
                    \* less those read since
    fwd             \* bytes the worker passed to tty_input_process since
                    \* its last wake, by IRQ line

serialVars == <<ipc, order, pty, ier, rx, have_installed, installs, irqPending,
                hpc, queue, wpc, wport, wch, ttyIn, log, fired, wakes, owed, fwd>>

VARIABLES
    (* serial.c: serial_write_out, serial_send *)
    opc,            \* position of each task in serial_write_out / serial_send
    odev,           \* the ports whose pty is the one written to, still to send
    oout,           \* serial_send's argument `out`, by task
    tx,             \* UART transmit buffer, by port: written, not yet shifted out
    wire,           \* the bytes each UART has put on the line
    sendLog,        \* the data-register writes: <<port, byte, transmit-empty
                    \* flag when written>>
    calls           \* serial_write_out calls made

outputVars == <<opc, odev, oout, tx, wire, sendLog, calls>>

VARIABLES
    (* user.c: arch_fatal_prepare, arch_fatal *)
    processor_count, \* number of cores
    lapic_id,        \* processor_local_data[i].lapic_id, by cpu index
    cpc,             \* what each core executes: "run", "prepare" (the loop of
                     \* arch_fatal_prepare), "hlt" (arch_fatal's cli; hlt loop),
                     \* "nmi_halt" (isr2: interrupts off, looping on hlt)
    fi,              \* arch_fatal_prepare's loop variable i, by calling core
    sent,            \* the lapic_send_ipi calls of each core: <<lapic id, val>>
    nmi              \* an NMI is on its way to the core

fatalVars == <<processor_count, lapic_id, cpc, fi, sent, nmi>>

VARIABLES
    (* user.c: arch_enter_user, arch_enter_signal_handler *)
    syscall_rsp,     \* this_core->current_process->syscall_registers->rsp
    call,            \* the call in progress and its arguments
    cpu,             \* the registers the iretq loads, once it has
    umem             \* the stores made to user memory: <<address, value>>

enterVars == <<syscall_rsp, call, cpu, umem>>

VARIABLES
    (* user.c: arch_reboot *)
    rpc,             \* position of arch_reboot
    idtr,            \* the page the IDT register points to, 0 the kernel's IDT
    out,             \* arch_reboot's local `out`
    kbcCmd,          \* the bytes written to port 0x64
    kbcHonours,      \* the keyboard controller acts on the reset command
    machine,         \* "running", or "reset" once the controller pulsed reset
    retval           \* what arch_reboot returned, once it has

rebootVars == <<rpc, idtr, out, kbcCmd, kbcHonours, machine, retval>>

vars == <<serialVars, outputVars, fatalVars, enterVars, rebootVars>>

(* ------------------------------ helpers ------------------------------- *)

\* serial_device_create's test `port == SERIAL_PORT_A || port == SERIAL_PORT_C`.
LineOf(port) ==
    IF port = SERIAL_PORT_A \/ port = SERIAL_PORT_C THEN SERIAL_IRQ_AC
    ELSE SERIAL_IRQ_BD

LinePorts(l) == {p \in Ports : LineOf(p) = l}

\* A worker given the other line's base port.
PortBase_Swapped(w) == IF w = SERIAL_IRQ_AC THEN SERIAL_PORT_B ELSE SERIAL_PORT_A

\* process_serial: portBase = (argp == sem_serial_ac) ? SERIAL_PORT_A : SERIAL_PORT_B
PortBase(w) == IF w = SERIAL_IRQ_AC THEN SERIAL_PORT_A ELSE SERIAL_PORT_B

\* serial_rcvd: inportb(device + 5) & 1, the line status data-ready bit.
serial_rcvd(device) ==
    IF device \in Ports THEN (IF rx[device] # <<>> THEN 1 ELSE 0)
    ELSE FloatingBus % 2

\* inportb(port + 1): the interrupt enable register reads back what was written.
ReadIER(port) == IF port \in Ports THEN ier[port] ELSE FloatingBus

\* A port test that always takes the else branch.
SelectPort_Else(portBase) == portBase - 256

\* process_serial lines 79-83: which port the worker drains after a wake.
SelectPort(portBase) ==
    IF ReadIER(portBase) % 2 = 1 THEN portBase ELSE portBase - 256

\* The ports of worker w's line when both report data ready, else none.
PendingBoth(w) ==
    IF \A p \in LinePorts(w) : rx[p] # <<>> THEN LinePorts(w) ELSE {}

\* serial_initialize has returned.
InitDone == ipc = 9

\* All four ports are up and both workers are Suspended in sleep_on.
Idle == InitDone /\ \A l \in Lines : wpc[l] = "blocked" /\ hpc[l] = "idle"

(* ----------------------- scheduler wait queues ------------------------ *)

\* sleep_on(queue): enqueue the current task.
sleep_on(q, w) == q \cup {w}

\* wakeup_queue(queue): every waiter is dequeued and made runnable; a task
\* that is not on the queue is not affected and nothing is remembered.
WokenBy(q) == q

(* -------------------------------- Init -------------------------------- *)

SerialInit(o) ==
    /\ ipc = 0
    /\ order = o
    /\ pty = [p \in Ports |-> NULL]
    /\ ier = [p \in Ports |-> 0]
    /\ rx = [p \in Ports |-> <<>>]
    /\ have_installed = [l \in Lines |-> 0]
    /\ installs = [l \in Lines |-> 0]
    /\ irqPending = [l \in Lines |-> FALSE]
    /\ hpc = [l \in Lines |-> "idle"]
    /\ queue = [l \in Lines |-> {}]
    /\ wpc = [l \in Lines |-> "none"]
    /\ wport = [l \in Lines |-> 0]
    /\ wch = [l \in Lines |-> 0]
    /\ ttyIn = [p \in Ports |-> <<>>]
    /\ log = <<>>
    /\ fired = [l \in Lines |-> 0]
    /\ wakes = [l \in Lines |-> 0]
    /\ owed = [l \in Lines |-> {}]
    /\ fwd = [l \in Lines |-> 0]

\* serial_initialize's order of serial_device_create calls.
CodeOrder == <<SERIAL_PORT_A, SERIAL_PORT_B, SERIAL_PORT_C, SERIAL_PORT_D>>

\* serial_initialize not called: the state of the driver where it is not
\* modelled.
SerialIdle == SerialInit(CodeOrder)

(* -------------------------- serial_initialize ------------------------- *)

\* Lines 169-173: the two queues are created and the two workers spawned.
SerialInitSpawn ==
    /\ ipc = 0
    /\ ipc' = 1
    /\ queue' = [l \in Lines |-> {}]
    /\ wpc' = [l \in Lines |-> "sleep_on"]
    /\ UNCHANGED <<order, pty, ier, rx, have_installed, installs, irqPending,
                   hpc, wport, wch, ttyIn, log, fired, wakes, owed, fwd>>
    /\ UNCHANGED <<outputVars, fatalVars, enterVars, rebootVars>>

\* serial_device_create with the store of the new pty left out.
DeviceCreateEnable_NoPty(k) ==
    /\ ipc = 2 * k - 1
    /\ ipc' = ipc + 1
    /\ rx' = [rx EXCEPT ![order[k]] = <<>>]
    /\ ier' = [ier EXCEPT ![order[k]] = 1]
    /\ UNCHANGED <<order, pty, have_installed, installs, irqPending, hpc, queue,
                   wpc, wport, wch, ttyIn, log, fired, wakes, owed, fwd>>
    /\ UNCHANGED <<outputVars, fatalVars, enterVars, rebootVars>>

\* serial_device_create lines 143-148 for the k-th port: pty_new, the store
\* through pty_for_port, and serial_enable, which clears the FIFO (0xC7 to
\* port + 2) and leaves the interrupt enable register at 0x01.
DeviceCreateEnable(k) ==
    /\ ipc = 2 * k - 1
    /\ ipc' = ipc + 1
    /\ pty' = [pty EXCEPT ![order[k]] = order[k]]
    /\ rx' = [rx EXCEPT ![order[k]] = <<>>]
    /\ ier' = [ier EXCEPT ![order[k]] = 1]
    /\ UNCHANGED <<order, have_installed, installs, irqPending, hpc, queue,
                   wpc, wport, wch, ttyIn, log, fired, wakes, owed, fwd>>
    /\ UNCHANGED <<outputVars, fatalVars, enterVars, rebootVars>>

\* serial_device_create with the store to have_installed_ac/_bd left out.
DeviceCreateInstall_NoFlag(k) ==
    /\ ipc = 2 * k
    /\ ipc' = ipc + 1
    /\ IF have_installed[LineOf(order[k])] = 0
       THEN installs' = [installs EXCEPT ![LineOf(order[k])] = @ + 1]
       ELSE UNCHANGED installs
    /\ UNCHANGED <<order, pty, ier, rx, have_installed, irqPending, hpc, queue,
                   wpc, wport, wch, ttyIn, log, fired, wakes, owed, fwd>>
    /\ UNCHANGED <<outputVars, fatalVars, enterVars, rebootVars>>

\* serial_device_create lines 150-165 for the k-th port, and the vfs_mount.
DeviceCreateInstall(k) ==
    /\ ipc = 2 * k
    /\ ipc' = ipc + 1
    /\ LET l == LineOf(order[k]) IN
         IF have_installed[l] = 0
         THEN /\ installs' = [installs EXCEPT ![l] = @ + 1]
              /\ have_installed' = [have_installed EXCEPT ![l] = 1]
         ELSE UNCHANGED <<installs, have_installed>>
    /\ UNCHANGED <<order, pty, ier, rx, irqPending, hpc, queue,
                   wpc, wport, wch, ttyIn, log, fired, wakes, owed, fwd>>
    /\ UNCHANGED <<outputVars, fatalVars, enterVars, rebootVars>>

(* ------------------------------ the UARTs ----------------------------- *)

\* A byte arrives at a brought-up port: it enters the receive FIFO and, the
\* received-data interrupt being enabled, the port raises its IRQ line.
Arrive(p, b) ==
    /\ Len(log) < MaxArrivals
    /\ ier[p] % 2 = 1
    /\ rx' = [rx EXCEPT ![p] = Append(@, b)]
    /\ irqPending' = [irqPending EXCEPT ![LineOf(p)] = TRUE]
    /\ log' = Append(log, <<p, b, Idle>>)
    /\ UNCHANGED <<ipc, order, pty, ier, have_installed, installs, hpc, queue,
                   wpc, wport, wch, ttyIn, fired, wakes, owed, fwd>>
    /\ UNCHANGED <<outputVars, fatalVars, enterVars, rebootVars>>

(* ------------------ serial_handler_ac / serial_handler_bd ------------- *)

\* A handler that, besides irq_ack, reads the data register of the line's
\* base port.
HandlerAck_ReadsPort(l) ==
    /\ irqPending[l]
    /\ have_installed[l] = 1
    /\ hpc[l] = "idle"
    /\ irqPending' = [irqPending EXCEPT ![l] = FALSE]
    /\ hpc' = [hpc EXCEPT ![l] = "wake"]
    /\ rx' = [rx EXCEPT ![PortBase(l)] = IF @ = <<>> THEN @ ELSE Tail(@)]
    /\ UNCHANGED <<ipc, order, pty, ier, have_installed, installs, queue,
                   wpc, wport, wch, ttyIn, log, fired, wakes, owed, fwd>>
    /\ UNCHANGED <<outputVars, fatalVars, enterVars, rebootVars>>

\* The IRQ is delivered to the installed handler, which calls irq_ack.
HandlerAck(l) ==
    /\ irqPending[l]
    /\ have_installed[l] = 1
    /\ hpc[l] = "idle"
    /\ irqPending' = [irqPending EXCEPT ![l] = FALSE]
    /\ hpc' = [hpc EXCEPT ![l] = "wake"]
    /\ UNCHANGED <<ipc, order, pty, ier, rx, have_installed, installs, queue,
                   wpc, wport, wch, ttyIn, log, fired, wakes, owed, fwd>>
    /\ UNCHANGED <<outputVars, fatalVars, enterVars, rebootVars>>

\* A handler that wakes the other line's queue.
HandlerWake_OtherQueue(l) ==
    /\ hpc[l] = "wake"
    /\ hpc' = [hpc EXCEPT ![l] = "idle"]
    /\ LET o == CHOOSE x \in Lines : x # l IN
         /\ queue' = [queue EXCEPT ![o] = {}]
         /\ wpc' = [w \in Lines |->
                      IF w \in WokenBy(queue[o]) THEN "select" ELSE wpc[w]]
         /\ wakes' = [w \in Lines |->
                        IF w \in WokenBy(queue[o]) THEN wakes[w] + 1 ELSE wakes[w]]
         /\ owed' = [w \in Lines |->
                       IF w \in WokenBy(queue[o]) THEN PendingBoth(w) ELSE owed[w]]
         /\ fwd' = [w \in Lines |->
                      IF w \in WokenBy(queue[o]) THEN 0 ELSE fwd[w]]
    /\ fired' = [fired EXCEPT ![l] = @ + 1]
    /\ UNCHANGED <<ipc, order, pty, ier, rx, have_installed, installs,
                   irqPending, wport, wch, ttyIn, log>>
    /\ UNCHANGED <<outputVars, fatalVars, enterVars, rebootVars>>

\* wakeup_queue on the handler's own queue, then return 1.
HandlerWake(l) ==
    /\ hpc[l] = "wake"
    /\ hpc' = [hpc EXCEPT ![l] = "idle"]
    /\ queue' = [queue EXCEPT ![l] = {}]
    /\ wpc' = [w \in Lines |-> IF w \in WokenBy(queue[l]) THEN "select" ELSE wpc[w]]
    /\ fired' = [fired EXCEPT ![l] = @ + 1]
    /\ wakes' = [w \in Lines |->
                   IF w \in WokenBy(queue[l]) THEN wakes[w] + 1 ELSE wakes[w]]
    /\ owed' = [w \in Lines |->
                  IF w \in WokenBy(queue[l])
                  THEN PendingBoth(w)
                  ELSE owed[w]]
    /\ fwd' = [w \in Lines |-> IF w \in WokenBy(queue[l]) THEN 0 ELSE fwd[w]]
    /\ UNCHANGED <<ipc, order, pty, ier, rx, have_installed, installs,
                   irqPending, wport, wch, ttyIn, log>>
    /\ UNCHANGED <<outputVars, fatalVars, enterVars, rebootVars>>

(* ---------------------------- process_serial -------------------------- *)

\* Line 76: sleep_on(argp).
WorkerSleep(w) ==
    /\ wpc[w] = "sleep_on"
    /\ queue' = [queue EXCEPT ![w] = sleep_on(@, w)]
    /\ wpc' = [wpc EXCEPT ![w] = "blocked"]
    /\ UNCHANGED <<ipc, order, pty, ier, rx, have_installed, installs,
                   irqPending, hpc, wport, wch, ttyIn, log, fired, wakes, owed, fwd>>
    /\ UNCHANGED <<outputVars, fatalVars, enterVars, rebootVars>>

\* Lines 77-83: choose the port to drain.
WorkerSelect(w) ==
    /\ wpc[w] = "select"
    /\ wport' = [wport EXCEPT ![w] = SelectPort(PortBase(w))]
    /\ wpc' = [wpc EXCEPT ![w] = "recv"]
    /\ UNCHANGED <<ipc, order, pty, ier, rx, have_installed, installs,
                   irqPending, hpc, queue, wch, ttyIn, log, fired, wakes, owed, fwd>>
    /\ UNCHANGED <<outputVars, fatalVars, enterVars, rebootVars>>

\* Line 85, serial_recv: while no data is ready, switch_task(1) and poll
\* again; then read the byte from the data register.
WorkerRecv(w) ==
    /\ wpc[w] = "recv"
    /\ IF serial_rcvd(wport[w]) = 0
       THEN UNCHANGED <<rx, wch, wpc, owed>>
       ELSE /\ wpc' = [wpc EXCEPT ![w] = "feed"]
            /\ owed' = [owed EXCEPT ![w] = @ \ {wport[w]}]
            /\ IF wport[w] \in Ports
               THEN /\ wch' = [wch EXCEPT ![w] = Head(rx[wport[w]])]
                    /\ rx' = [rx EXCEPT ![wport[w]] = Tail(@)]
               ELSE /\ wch' = [wch EXCEPT ![w] = FloatingBus]
                    /\ UNCHANGED rx
    /\ UNCHANGED <<ipc, order, pty, ier, have_installed, installs,
                   irqPending, hpc, queue, wport, ttyIn, log, fired, wakes,
                   fwd>>
    /\ UNCHANGED <<outputVars, fatalVars, enterVars, rebootVars>>

\* Lines 86-87: pty = *pty_for_port(port); tty_input_process(pty, ch).
\* For a port that is none of the four, pty_for_port runs into
\* __builtin_unreachable: the pointer it yields is any pty slot, or the
\* kernel faults. A NULL pty faults in tty_input_process.
WorkerFeed(w) ==
    /\ wpc[w] = "feed"
    /\ \E slot \in Ports \cup {NULL} :
         /\ IF wport[w] \in Ports THEN slot = wport[w] ELSE TRUE
         /\ IF slot = NULL \/ pty[slot] = NULL
            THEN /\ wpc' = [wpc EXCEPT ![w] = "fault"]
                 /\ UNCHANGED <<ttyIn, fwd>>
            ELSE /\ ttyIn' = [ttyIn EXCEPT ![pty[slot]] = Append(@, wch[w])]
                 /\ fwd' = [fwd EXCEPT ![w] = @ + 1]
                 /\ wpc' = [wpc EXCEPT ![w] = "rcvd"]
    /\ wch' = [wch EXCEPT ![w] = 0]
    /\ UNCHANGED <<ipc, order, pty, ier, rx, have_installed, installs,
                   irqPending, hpc, queue, wport, log, fired, wakes, owed>>
    /\ UNCHANGED <<outputVars, fatalVars, enterVars, rebootVars>>

\* Lines 88-92: next = serial_rcvd(port); with more data, switch_task(1) and
\* go round the do-while; without, leave it for the sleep_on of line 76.
WorkerRcvd(w) ==
    /\ wpc[w] = "rcvd"
    /\ wpc' = [wpc EXCEPT ![w] =
                 IF serial_rcvd(wport[w]) # 0 THEN "recv" ELSE "sleep_on"]
    /\ UNCHANGED <<ipc, order, pty, ier, rx, have_installed, installs,
                   irqPending, hpc, queue, wport, wch, ttyIn, log, fired,
                   wakes, owed, fwd>>
    /\ UNCHANGED <<outputVars, fatalVars, enterVars, rebootVars>>

(* -------------------- serial_write_out, serial_send ------------------- *)

Writers == 1..MaxWriters

\* serial_transmit_empty: inportb(device + 5) & 0x20, the line status
\* transmit-holding-register-empty bit.
serial_transmit_empty(device) == IF tx[device] = <<>> THEN 32 ELSE 0

RECURSIVE MatchingPorts(_, _)
\* serial_write_out's four tests, in their order: the ports whose pty
\* pointer equals the pty written to.
MatchingPorts(ps, x) ==
    IF ps = <<>> THEN <<>>
    ELSE IF pty[Head(ps)] = x
         THEN <<Head(ps)>> \o MatchingPorts(Tail(ps), x)
         ELSE MatchingPorts(Tail(ps), x)

\* No task is in serial_write_out and the UARTs have nothing to transmit.
OutputIdle ==
    /\ opc = [t \in Writers |-> "idle"]
    /\ odev = [t \in Writers |-> <<>>]
    /\ oout = [t \in Writers |-> 0]
    /\ tx = [p \in Ports |-> <<>>]
    /\ wire = [p \in Ports |-> <<>>]
    /\ sendLog = <<>>
    /\ calls = 0

\* The driver after serial_initialize has returned and both workers have
\* suspended themselves in sleep_on.
SerialUp ==
    /\ ipc = 9
    /\ order = CodeOrder
    /\ pty = [p \in Ports |-> p]
    /\ ier = [p \in Ports |-> 1]
    /\ rx = [p \in Ports |-> <<>>]
    /\ have_installed = [l \in Lines |-> 1]
    /\ installs = [l \in Lines |-> 1]
    /\ irqPending = [l \in Lines |-> FALSE]
    /\ hpc = [l \in Lines |-> "idle"]
    /\ queue = [l \in Lines |-> {l}]
    /\ wpc = [l \in Lines |-> "blocked"]
    /\ wport = [l \in Lines |-> 0]
    /\ wch = [l \in Lines |-> 0]
    /\ ttyIn = [p \in Ports |-> <<>>]
    /\ log = <<>>
    /\ fired = [l \in Lines |-> 0]
    /\ wakes = [l \in Lines |-> 0]
    /\ owed = [l \in Lines |-> {}]
    /\ fwd = [l \in Lines |-> 0]

\* Task t enters serial_write_out(x, c).
WriteOutCall(t, x, c) ==
    /\ opc[t] = "idle"
    /\ calls < MaxSends
    /\ calls' = calls + 1
    /\ odev' = [odev EXCEPT ![t] = MatchingPorts(CodeOrder, x)]
    /\ oout' = [oout EXCEPT ![t] = c]
    /\ opc' = [opc EXCEPT ![t] =
                 IF MatchingPorts(CodeOrder, x) = <<>> THEN "idle" ELSE "poll"]
    /\ UNCHANGED <<tx, wire, sendLog>>
    /\ UNCHANGED <<serialVars, fatalVars, enterVars, rebootVars>>

\* serial_send line 62: while the transmit buffer is not empty,
\* switch_task(1) and test again.
SendPoll(t) ==
    /\ opc[t] = "poll"
    /\ opc' = [opc EXCEPT ![t] =
                 IF serial_transmit_empty(Head(odev[t])) = 0
                 THEN "poll" ELSE "out"]
    /\ UNCHANGED <<odev, oout, tx, wire, sendLog, calls>>
    /\ UNCHANGED <<serialVars, fatalVars, enterVars, rebootVars>>

\* serial_send line 63: outportb(device, out), and the return to
\* serial_write_out's next test.
SendOut(t) ==
    /\ opc[t] = "out"
    /\ tx' = [tx EXCEPT ![Head(odev[t])] = Append(@, oout[t])]
    /\ sendLog' = Append(sendLog,
                         <<Head(odev[t]), oout[t],
                           serial_transmit_empty(Head(odev[t]))>>)
    /\ odev' = [odev EXCEPT ![t] = Tail(@)]
    /\ opc' = [opc EXCEPT ![t] =
                 IF Tail(odev[t]) = <<>> THEN "idle" ELSE "poll"]
    /\ UNCHANGED <<oout, wire, calls>>
    /\ UNCHANGED <<serialVars, fatalVars, enterVars, rebootVars>>

\* The UART shifts a byte out of its transmit buffer onto the line.
Transmit(p) ==
    /\ tx[p] # <<>>
    /\ wire' = [wire EXCEPT ![p] = Append(@, Head(tx[p]))]
    /\ tx' = [tx EXCEPT ![p] = Tail(@)]
    /\ UNCHANGED <<opc, odev, oout, sendLog, calls>>
    /\ UNCHANGED <<serialVars, fatalVars, enterVars, rebootVars>>

(* ================= user.c: arch_fatal_prepare, arch_fatal ============= *)

\* The value arch_fatal_prepare passes to lapic_send_ipi (0x447D).
HALT_IPI == 17533

Cores == 0..(processor_count - 1)

\* The LAPIC ids of n cores: the cpu indices themselves, or a sparse
\* numbering in the opposite order.
LapicMaps(n) ==
    {[i \in 0..(n - 1) |-> i], [i \in 0..(n - 1) |-> 2 * (n - i)]}

\* lapic_send_ipi(dest, val): with val 0x447D an NMI goes to the core whose
\* LAPIC id is dest.
NmiTargets(dest, val) ==
    IF val = HALT_IPI THEN {d \in Cores : lapic_id[d] = dest} ELSE {}

FatalInit ==
    \E n \in 1..MaxCores : \E m \in LapicMaps(n) :
        /\ processor_count = n
        /\ lapic_id = m
        /\ cpc = [c \in 0..(n - 1) |-> "run"]
        /\ fi = [c \in 0..(n - 1) |-> 0]
        /\ sent = [c \in 0..(n - 1) |-> <<>>]
        /\ nmi = [c \in 0..(n - 1) |-> FALSE]

\* One core, running: the state of the cores where they are not modelled.
FatalIdle ==
    /\ processor_count = 1
    /\ lapic_id = [c \in {0} |-> 0]
    /\ cpc = [c \in {0} |-> "run"]
    /\ fi = [c \in {0} |-> 0]
    /\ sent = [c \in {0} |-> <<>>]
    /\ nmi = [c \in {0} |-> FALSE]

\* A running core calls arch_fatal, which calls arch_fatal_prepare.
CallFatal(c) ==
    /\ cpc[c] = "run"
    /\ cpc' = [cpc EXCEPT ![c] = "prepare"]
    /\ fi' = [fi EXCEPT ![c] = 0]
    /\ UNCHANGED <<processor_count, lapic_id, sent, nmi>>
    /\ UNCHANGED <<serialVars, outputVars, enterVars, rebootVars>>

\* An arch_fatal_prepare that skips core 0 instead of the calling core.
FatalPrepareStep_SkipZero(c) ==
    /\ cpc[c] = "prepare"
    /\ fi[c] < processor_count
    /\ IF fi[c] = 0
       THEN UNCHANGED <<sent, nmi>>
       ELSE /\ sent' = [sent EXCEPT ![c] = Append(@, <<lapic_id[fi[c]], HALT_IPI>>)]
            /\ nmi' = [d \in Cores |->
                         nmi[d] \/ d \in NmiTargets(lapic_id[fi[c]], HALT_IPI)]
    /\ fi' = [fi EXCEPT ![c] = @ + 1]
    /\ UNCHANGED <<processor_count, lapic_id, cpc>>
    /\ UNCHANGED <<serialVars, outputVars, enterVars, rebootVars>>

\* One iteration of arch_fatal_prepare's loop on core c (this_core->cpu_id
\* is c): the calling core is skipped, any other is sent the IPI.
FatalPrepareStep(c) ==
    /\ cpc[c] = "prepare"
    /\ fi[c] < processor_count
    /\ IF fi[c] = c
       THEN UNCHANGED <<sent, nmi>>
       ELSE /\ sent' = [sent EXCEPT ![c] = Append(@, <<lapic_id[fi[c]], HALT_IPI>>)]
            /\ nmi' = [d \in Cores |->
                         nmi[d] \/ d \in NmiTargets(lapic_id[fi[c]], HALT_IPI)]
    /\ fi' = [fi EXCEPT ![c] = @ + 1]
    /\ UNCHANGED <<processor_count, lapic_id, cpc>>
    /\ UNCHANGED <<serialVars, outputVars, enterVars, rebootVars>>

\* The loop is over: arch_fatal_prepare returns into arch_fatal, which
\* loops on cli; hlt.
FatalHalt(c) ==
    /\ cpc[c] = "prepare"
    /\ fi[c] >= processor_count
    /\ cpc' = [cpc EXCEPT ![c] = "hlt"]
    /\ UNCHANGED <<processor_count, lapic_id, fi, sent, nmi>>
    /\ UNCHANGED <<serialVars, outputVars, enterVars, rebootVars>>

\* The NMI reaches core d, whatever it executes: isr2 disables interrupts
\* and loops on hlt. Inside isr2 further NMIs are held off.
NmiDeliver(d) ==
    /\ nmi[d]
    /\ cpc[d] # "nmi_halt"
    /\ nmi' = [nmi EXCEPT ![d] = FALSE]
    /\ cpc' = [cpc EXCEPT ![d] = "nmi_halt"]
    /\ UNCHANGED <<processor_count, lapic_id, fi, sent>>
    /\ UNCHANGED <<serialVars, outputVars, enterVars, rebootVars>>

(* ========= user.c: arch_enter_user, arch_enter_signal_handler ========= *)

\* A 64-bit value is four 16-bit limbs, the most significant first.
Limb == 2 ^ 16

U64(a, b, c, d) == <<a, b, c, d>>

RECURSIVE BitAnd(_, _)
BitAnd(a, b) ==
    IF a = 0 \/ b = 0 THEN 0
    ELSE (a % 2) * (b % 2) + 2 * BitAnd(a \div 2, b \div 2)

RECURSIVE BitOr(_, _)
BitOr(a, b) ==
    IF a = 0 THEN b
    ELSE IF b = 0 THEN a
    ELSE (IF a % 2 = 1 \/ b % 2 = 1 THEN 1 ELSE 0)
         + 2 * BitOr(a \div 2, b \div 2)

\* x - y on uintptr_t: modulo 2^64, the borrow carried from limb to limb.
Sub64(x, y) ==
    LET d4 == x[4] - y[4]
        b4 == IF d4 < 0 THEN 1 ELSE 0
        d3 == x[3] - y[3] - b4
        b3 == IF d3 < 0 THEN 1 ELSE 0
        d2 == x[2] - y[2] - b3
        b2 == IF d2 < 0 THEN 1 ELSE 0
        d1 == x[1] - y[1] - b2
        b1 == IF d1 < 0 THEN 1 ELSE 0
    IN  <<d1 + b1 * Limb, d2 + b2 * Limb, d3 + b3 * Limb, d4 + b4 * Limb>>

And64(x, m) == [i \in 1..4 |-> BitAnd(x[i], m[i])]

\* x < y as unsigned 64-bit values.
Lt64(x, y) ==
    \E i \in 1..4 : x[i] < y[i] /\ \A j \in 1..(i - 1) : x[j] = y[j]

\* 0x00000008DEADBEEF, the return address stored for the signal handler.
SENTINEL == U64(0, 8, 57005, 48879)

\* ret.cs = 0x18 | 0x03, ret.ss = 0x20 | 0x03, ret.rflags = (1 << 21) | (1 << 9).
USER_CS == BitOr(24, 3)

USER_SS == BitOr(32, 3)

USER_RFLAGS == BitOr(2 ^ 21, 2 ^ 9)

\* A handler stack pointer that skips the slot but not the red zone.
SignalRsp_NoRedZone(rsp) ==
    And64(Sub64(rsp, U64(0, 0, 0, 8)), U64(65535, 65535, 65535, 65520))

\* A handler stack pointer left unaligned.
SignalRsp_Unaligned(rsp) ==
    Sub64(Sub64(rsp, U64(0, 0, 0, 128)), U64(0, 0, 0, 8))

\* Line 68: (rsp - 128 - 8) & 0xFFFFFFFFFFFFFFF0.
SignalRsp(rsp) ==
    And64(Sub64(Sub64(rsp, U64(0, 0, 0, 128)), U64(0, 0, 0, 8)),
          U64(65535, 65535, 65535, 65520))

\* struct regs ret of arch_enter_user.
EnterUserFrame(entrypoint, stack) ==
    [cs |-> USER_CS, ss |-> USER_SS, rip |-> entrypoint,
     rflags |-> USER_RFLAGS, rsp |-> stack]

\* struct regs ret of arch_enter_signal_handler.
EnterSignalFrame(entrypoint, rsp) ==
    [cs |-> USER_CS, ss |-> USER_SS, rip |-> entrypoint,
     rflags |-> USER_RFLAGS, rsp |-> SignalRsp(rsp)]

\* The pushes with the stack pointer and the instruction pointer exchanged.
PushFrame_RspRipSwapped(ret) == <<ret.ss, ret.rip, ret.rflags, ret.cs, ret.rsp>>

\* The five pushq of the asm block, in order: ss, rsp, rflags, cs, rip.
PushFrame(ret) == <<ret.ss, ret.rsp, ret.rflags, ret.cs, ret.rip>>

\* iretq pops rip, cs, rflags, rsp, ss, the last pushed first; the privilege
\* level becomes the requested privilege level of the code selector.
Iretq(stack, rdi, rsi, rdx) ==
    [rip |-> stack[5], cs |-> stack[4], rflags |-> stack[3],
     rsp |-> stack[2], ss |-> stack[1], cpl |-> stack[4] % 4,
     rdi |-> rdi, rsi |-> rsi, rdx |-> rdx]

NoCall == [op |-> "none"]

\* Kernel mode, before either call.
KernelCpu ==
    [rip |-> U64(0, 0, 0, 0), cs |-> 8, rflags |-> 0, rsp |-> U64(0, 0, 0, 0),
     ss |-> 16, cpl |-> 0, rdi |-> 0, rsi |-> 0, rdx |-> 0]

RspHigh == {<<0, 0, 0>>, <<0, 0, 1>>, <<0, 32767, 65535>>, <<65535, 65535, 65535>>}

RspLow == (0..MaxRspLow) \cup ((Limb - 1 - MaxRspLow)..(Limb - 1))

RspInputs == {U64(h[1], h[2], h[3], l) : h \in RspHigh, l \in RspLow}

Entrypoints == {U64(0, 0, 64, 0), U64(0, 32512, 0, 4660)}

Stacks == {U64(0, 32767, 65535, 61440), U64(0, 0, 32768, 8)}

Argcs == {0, 2}

Signums == {2, 15}

EnterInit ==
    /\ syscall_rsp \in RspInputs
    /\ call = NoCall
    /\ cpu = KernelCpu
    /\ umem = {}

EnterIdle ==
    /\ syscall_rsp = U64(0, 0, 0, 0)
    /\ call = NoCall
    /\ cpu = KernelCpu
    /\ umem = {}

\* arch_enter_user(entrypoint, argc, argv, envp, stack).
EnterUser(entrypoint, argc, argv, envp, stack) ==
    /\ call.op = "none"
    /\ call' = [op |-> "arch_enter_user", entrypoint |-> entrypoint,
                argc |-> argc, argv |-> argv, envp |-> envp, stack |-> stack]
    /\ cpu' = Iretq(PushFrame(EnterUserFrame(entrypoint, stack)),
                    argc, argv, envp)
    /\ UNCHANGED <<syscall_rsp, umem>>
    /\ UNCHANGED <<serialVars, outputVars, fatalVars, rebootVars>>

\* arch_enter_signal_handler(entrypoint, signum).
EnterSignalHandler(entrypoint, signum) ==
    /\ call.op = "none"
    /\ call' = [op |-> "arch_enter_signal_handler", entrypoint |-> entrypoint,
                signum |-> signum]
    /\ LET ret == EnterSignalFrame(entrypoint, syscall_rsp) IN
         /\ umem' = umem \cup {<<ret.rsp, SENTINEL>>}
         /\ cpu' = Iretq(PushFrame(ret), signum, cpu.rsi, cpu.rdx)
    /\ UNCHANGED syscall_rsp
    /\ UNCHANGED <<serialVars, outputVars, fatalVars, rebootVars>>

(* ========================= user.c: arch_reboot ======================== *)

\* The keyboard controller's status and command port (0x64).
KBC_PORT == 100

\* The reset command (0xFE).
KBC_RESET == 254

RebootInit ==
    /\ rpc = "idle"
    /\ idtr = 0
    /\ out = 0
    /\ kbcCmd = <<>>
    /\ kbcHonours \in BOOLEAN
    /\ machine = "running"
    /\ retval = "none"

RebootIdle == RebootInit /\ kbcHonours = FALSE

\* Lines 192-199: a frame is allocated, mapped and zeroed, lidt loads it as
\* the IDT, and out starts at 0x02.
RebootLoadIdt(frame) ==
    /\ rpc = "idle"
    /\ machine = "running"
    /\ idtr' = frame
    /\ out' = 2
    /\ rpc' = "poll"
    /\ UNCHANGED <<kbcCmd, kbcHonours, machine, retval>>
    /\ UNCHANGED <<serialVars, outputVars, fatalVars, enterVars>>

\* A loop that leaves after one read of the status, whatever it shows.
RebootPoll_NoWait(status) ==
    /\ rpc = "poll"
    /\ machine = "running"
    /\ out' = status
    /\ rpc' = "reset"
    /\ UNCHANGED <<idtr, kbcCmd, kbcHonours, machine, retval>>
    /\ UNCHANGED <<serialVars, outputVars, fatalVars, enterVars>>

\* A loop that waits on bit 0x01, the output buffer, instead.
RebootPoll_WrongBit(status) ==
    /\ rpc = "poll"
    /\ machine = "running"
    /\ out' = status
    /\ rpc' = IF BitAnd(status, 1) # 0 THEN "poll" ELSE "reset"
    /\ UNCHANGED <<idtr, kbcCmd, kbcHonours, machine, retval>>
    /\ UNCHANGED <<serialVars, outputVars, fatalVars, enterVars>>

\* Lines 200-202, one iteration: out = inportb(0x64) reads the status byte,
\* and the loop goes on while (out & 0x02) != 0.
RebootPoll(status) ==
    /\ rpc = "poll"
    /\ machine = "running"
    /\ out' = status
    /\ rpc' = IF BitAnd(status, 2) # 0 THEN "poll" ELSE "reset"
    /\ UNCHANGED <<idtr, kbcCmd, kbcHonours, machine, retval>>
    /\ UNCHANGED <<serialVars, outputVars, fatalVars, enterVars>>

\* Line 203: outportb(0x64, 0xFE).
RebootReset ==
    /\ rpc = "reset"
    /\ machine = "running"
    /\ kbcCmd' = Append(kbcCmd, <<KBC_PORT, KBC_RESET>>)
    /\ rpc' = "written"
    /\ UNCHANGED <<idtr, out, kbcHonours, machine, retval>>
    /\ UNCHANGED <<serialVars, outputVars, fatalVars, enterVars>>

\* A controller that honours the command resets the machine.
KbcReset ==
    /\ kbcHonours
    /\ machine = "running"
    /\ \E k \in 1..Len(kbcCmd) : kbcCmd[k] = <<KBC_PORT, KBC_RESET>>
    /\ machine' = "reset"
    /\ UNCHANGED <<rpc, idtr, out, kbcCmd, kbcHonours, retval>>
    /\ UNCHANGED <<serialVars, outputVars, fatalVars, enterVars>>

\* Line 204: return 0.
RebootReturn ==
    /\ rpc = "written"
    /\ machine = "running"
    /\ retval' = 0
    /\ rpc' = "returned"
    /\ UNCHANGED <<idtr, out, kbcCmd, kbcHonours, machine>>
    /\ UNCHANGED <<serialVars, outputVars, fatalVars, enterVars>>

(* ---------------------------- specifications -------------------------- *)

Init == SerialInit(CodeOrder) /\ OutputIdle /\ FatalIdle /\ EnterIdle /\ RebootIdle

Next ==
    \/ SerialInitSpawn
    \/ \E k \in 1..4 : DeviceCreateEnable(k)
    \/ \E k \in 1..4 : DeviceCreateInstall(k)
    \/ \E p \in Ports, b \in Bytes : Arrive(p, b)
    \/ \E l \in Lines : HandlerAck(l)
    \/ \E l \in Lines : HandlerWake(l)
    \/ \E w \in Lines : WorkerSleep(w)
    \/ \E w \in Lines : WorkerSelect(w)
    \/ \E w \in Lines : WorkerRecv(w)
    \/ \E w \in Lines : WorkerFeed(w)
    \/ \E w \in Lines : WorkerRcvd(w)

Spec == Init /\ [][Next]_vars

\* serial_device_create called for four ports in any order.
InitBringUp ==
    /\ \E o \in [1..4 -> Ports] : SerialInit(o)
    /\ OutputIdle /\ FatalIdle /\ EnterIdle /\ RebootIdle

NextBringUp ==
    \/ SerialInitSpawn
    \/ \E k \in 1..4 : DeviceCreateEnable(k)
    \/ \E k \in 1..4 : DeviceCreateInstall(k)

SpecBringUp == InitBringUp /\ [][NextBringUp]_vars

\* Tasks write bytes to the serial devices of the initialized driver.
InitOutput == SerialUp /\ OutputIdle /\ FatalIdle /\ EnterIdle /\ RebootIdle

NextOutput ==
    \/ \E t \in Writers, x \in Ports, c \in Bytes : WriteOutCall(t, x, c)
    \/ \E t \in Writers : SendPoll(t)
    \/ \E t \in Writers : SendOut(t)
    \/ \E p \in Ports : Transmit(p)

SpecOutput == InitOutput /\ [][NextOutput]_vars

\* arch_fatal on a machine of 1..MaxCores cores.
InitFatal == SerialIdle /\ OutputIdle /\ FatalInit /\ EnterIdle /\ RebootIdle

NextFatal ==
    \/ \E c \in Cores : CallFatal(c)
    \/ \E c \in Cores : FatalPrepareStep(c)
    \/ \E c \in Cores : FatalHalt(c)
    \/ \E d \in Cores : NmiDeliver(d)

SpecFatal == InitFatal /\ [][NextFatal]_vars

\* One call of arch_enter_user or of arch_enter_signal_handler.
InitEnter == SerialIdle /\ OutputIdle /\ FatalIdle /\ EnterInit /\ RebootIdle

NextEnter ==
    \/ \E e \in Entrypoints, argc \in Argcs, st \in Stacks :
          EnterUser(e, argc, Sub64(st, U64(0, 0, 0, 64)),
                    Sub64(st, U64(0, 0, 0, 32)), st)
    \/ \E e \in Entrypoints, signum \in Signums : EnterSignalHandler(e, signum)

SpecEnter == InitEnter /\ [][NextEnter]_vars

\* One call of arch_reboot.
InitReboot == SerialIdle /\ OutputIdle /\ FatalIdle /\ EnterIdle /\ RebootInit

NextReboot ==
    \/ \E frame \in 1..MaxFrame : RebootLoadIdt(frame)
    \/ \E status \in 0..255 : RebootPoll(status)
    \/ RebootReset
    \/ KbcReset
    \/ RebootReturn

SpecReboot == InitReboot /\ [][NextReboot]_vars

(* ------------------------------- claims ------------------------------- *)

\* No step of the handler or of the worker on line l can change the state:
\* no IRQ is pending or in service, and the worker is blocked in sleep_on
\* or polls, in serial_recv, a port that reports no data.
Settled(l) ==
    /\ ~irqPending[l]
    /\ hpc[l] = "idle"
    /\ \/ wpc[l] = "blocked"
       \/ wpc[l] = "recv" /\ serial_rcvd(wport[l]) = 0

C2_NeverDropped ==
    \A l \in Lines :
        Settled(l) => \A p \in LinePorts(l) : rx[p] = <<>>

\* C3: when both ports of a line had data pending at the firing that woke
\* the worker, both have been read by the time the worker is Suspended.
C3_BothDrained ==
    \A l \in Lines : wpc[l] = "blocked" => owed[l] = {}

\* C4: all four ports brought up and the workers Suspended, then exactly one
\* byte arrives, on port C (the second port of the pair on line 4):
\* once handler and worker have settled, tty_input_process has been called
\* once on C's pty with that byte, on no other pty, and the worker of the
\* line is Suspended.
C4_SingleByte ==
    \A b \in Bytes :
        (log = << <<SERIAL_PORT_C, b, TRUE>> >> /\ Settled(SERIAL_IRQ_AC))
        => /\ ttyIn[SERIAL_PORT_C] = <<b>>
           /\ \A p \in Ports \ {SERIAL_PORT_C} : ttyIn[p] = <<>>
           /\ wpc[SERIAL_IRQ_AC] = "blocked"

\* The ports whose serial_device_create call has returned.
BroughtUp == {order[k] : k \in {j \in 1..4 : 2 * j + 1 <= ipc}}

\* C7: a line has exactly one irq_install_handler call as soon as one of its
\* ports is brought up, and none before: no line is registered twice, and
\* with all four ports up both lines have one registration, in any order of
\* the serial_device_create calls.
C7_OneRegistration ==
    \A l \in Lines :
        installs[l] = IF BroughtUp \cap LinePorts(l) # {} THEN 1 ELSE 0

\* All four ports are up, in an order that is not serial_initialize's, and
\* both lines are registered once.
C7_Witness ==
    /\ InitDone
    /\ BroughtUp = Ports
    /\ order[1] = SERIAL_PORT_C /\ order[2] = SERIAL_PORT_A
    /\ \A l \in Lines : installs[l] = 1

\* The lapic_send_ipi calls core c made with the halt value for core d.
IpisTo(c, d) ==
    Cardinality({k \in 1..Len(sent[c]) : sent[c][k] = <<lapic_id[d], HALT_IPI>>})

\* C5: a core in arch_fatal_prepare sends nothing to itself, nothing but the
\* halt value 0x447D, only to other cores and at most once to each; when its
\* loop is over it has sent exactly once to every other core.
C5_OneHaltEach ==
    \A c \in Cores :
        /\ IpisTo(c, c) = 0
        /\ \A k \in 1..Len(sent[c]) :
              /\ sent[c][k][2] = HALT_IPI
              /\ \E d \in Cores \ {c} : sent[c][k][1] = lapic_id[d]
        /\ \A d \in Cores \ {c} : IpisTo(c, d) <= 1
        /\ fi[c] = processor_count =>
              \A d \in Cores \ {c} : IpisTo(c, d) = 1

\* Core 1 of three cores whose LAPIC ids are not their indices has finished
\* arch_fatal_prepare and halts in arch_fatal.
C5_Witness ==
    /\ processor_count = 3
    /\ lapic_id[0] # 0
    /\ cpc[1] = "hlt"
    /\ Len(sent[1]) = 2

\* No core is inside arch_fatal_prepare and every NMI sent has been taken.
FatalSettled ==
    \A c \in Cores :
        /\ cpc[c] # "prepare"
        /\ nmi[c] => cpc[c] = "nmi_halt"

\* C6: once a core has called arch_fatal and the calls and the NMIs they
\* sent have run their course, every core is halted, however many cores
\* called.
C6_AllHalted ==
    (FatalSettled /\ \E c \in Cores : cpc[c] # "run")
    => \A c \in Cores : cpc[c] \in {"hlt", "nmi_halt"}

\* The handler stack pointer is a multiple of 16.
Aligned16(x) == x[4] % 16 = 0

\* C8 as stated: for every recorded stack pointer the handler stack pointer
\* is 16-byte aligned, strictly below the recorded one, and the sentinel is
\* stored exactly there.
C8_AlignedBelowSentinel ==
    call.op = "arch_enter_signal_handler" =>
        /\ Aligned16(cpu.rsp)
        /\ Lt64(cpu.rsp, syscall_rsp)
        /\ umem = {<<cpu.rsp, SENTINEL>>}

\* C8 as amended: aligned, and the sentinel stored exactly there, for every
\* recorded stack pointer; strictly below the recorded stack pointer exactly
\* when that is at least 136, the subtraction wrapping round 2^64 below it.
C8_AlignedSentinelBelowFrom136 ==
    call.op = "arch_enter_signal_handler" =>
        /\ Aligned16(cpu.rsp)
        /\ umem = {<<cpu.rsp, SENTINEL>>}
        /\ Lt64(cpu.rsp, syscall_rsp) <=> ~Lt64(syscall_rsp, U64(0, 0, 0, 136))

\* A delivery whose subtraction borrows from the next limb: 0x10064 gives
\* 0xFFD0.
C8_Witness ==
    /\ call.op = "arch_enter_signal_handler"
    /\ syscall_rsp = U64(0, 0, 1, 100)
    /\ cpu.rsp = U64(0, 0, 0, 65488)
    /\ <<cpu.rsp, SENTINEL>> \in umem

\* C9: after arch_enter_user the processor runs at privilege level 3 with
\* code and stack selectors of requested privilege level 3, the instruction
\* pointer at entrypoint, the stack pointer at stack and the interrupt flag
\* (bit 9) set; after arch_enter_signal_handler selectors and flags are the
\* same and the instruction pointer is its entrypoint.
C9_UserFrame ==
    /\ call.op = "arch_enter_user" =>
          /\ cpu.cpl = 3 /\ cpu.cs % 4 = 3 /\ cpu.ss % 4 = 3
          /\ cpu.rip = call.entrypoint
          /\ cpu.rsp = call.stack
          /\ (cpu.rflags \div 512) % 2 = 1
    /\ call.op = "arch_enter_signal_handler" =>
          /\ cpu.cpl = 3 /\ cpu.cs = 27 /\ cpu.ss = 35
          /\ cpu.rip = call.entrypoint
          /\ cpu.rflags = 2097664

\* arch_enter_user has entered user mode at 0x400000.
C9_Witness ==
    /\ call.op = "arch_enter_user"
    /\ call.entrypoint = U64(0, 0, 64, 0)
    /\ cpu.rip = U64(0, 0, 64, 0)
    /\ cpu.cpl = 3
    /\ cpu.cs = 27 /\ cpu.ss = 35 /\ cpu.rflags = 2097664

\* C10 as stated: with a controller that does not act on the reset command,
\* arch_reboot, when it returns, returns a failure indication, a value
\* other than 0.
C10_ReturnsFailure ==
    (rpc = "returned" /\ ~kbcHonours) => retval # 0

\* C10 as amended: with a controller that does not act on the reset
\* command, arch_reboot returns only after a status read with bit 0x02
\* clear and with the null IDT loaded and the reset command written once,
\* and the value it returns is 0.
C10_ReturnsZero ==
    (rpc = "returned" /\ ~kbcHonours) =>
        /\ retval = 0
        /\ BitAnd(out, 2) = 0
        /\ idtr # 0
        /\ kbcCmd = << <<KBC_PORT, KBC_RESET>> >>
        /\ machine = "running"

\* The reset command was ignored and arch_reboot has returned.
C10_Witness ==
    /\ rpc = "returned"
    /\ ~kbcHonours
    /\ retval = 0
    /\ out = 1
    /\ machine = "running"

\* C11: whatever the interleaving of the tasks in serial_write_out /
\* serial_send, every byte written to a port's data register was written
\* while that port's transmit-buffer-empty flag was set.
C11_WriteOnlyWhenEmpty ==
    \A i \in 1..Len(sendLog) : sendLog[i][3] # 0

\* The worker of line w is in its do-while loop, draining the port it
\* selected after its last wake.
Draining(w) == wpc[w] \in {"recv", "feed", "rcvd"}

\* C12: the port a worker reads after a wake is one of the two ports on the
\* worker's own IRQ line, and the two workers never read the same port.
C12_OwnLinePort ==
    /\ \A w \in Lines : Draining(w) => wport[w] \in LinePorts(w)
    /\ (\A w \in Lines : Draining(w)) =>
          wport[SERIAL_IRQ_AC] # wport[SERIAL_IRQ_BD]

\* Both workers have read a byte, each from the port it selected.
C12_Witness ==
    \A w \in Lines : wpc[w] = "feed" /\ wch[w] \in Bytes

\* C17: the port the worker passes to pty_for_port is one of the four
\* defined port addresses; the fall-through of pty_for_port is not run.
C17_DefinedPort ==
    \A w \in Lines : wpc[w] = "feed" => wport[w] \in Ports

\* The worker of IRQ line 3 is about to call pty_for_port for a byte read.
C17_Witness ==
    wpc[SERIAL_IRQ_BD] = "feed" /\ wch[SERIAL_IRQ_BD] \in Bytes

\* C18: when a worker forwards a byte, also while serial_initialize has
\* not returned, the pty of the port it read is not NULL; no worker ever
\* faults in tty_input_process.
C18_EndpointCreated ==
    \A w \in Lines :
        /\ wpc[w] # "fault"
        /\ wpc[w] = "feed" => (wport[w] \in Ports /\ pty[wport[w]] # NULL)

\* A byte has been passed to tty_input_process while serial_initialize was
\* still creating devices.
C18_Witness ==
    /\ ~InitDone
    /\ \E p \in Ports : ttyIn[p] # <<>>

\* C13: a handler first acknowledges its own IRQ line and changes nothing
\* else, then wakes exactly the waiters of its own queue and returns; it
\* wakes only after the acknowledge, leaves the other line's queue, IRQ and
\* waiters alone, touches no UART register, and, once entered, is never
\* kept from its next step.
C13_AckThenWakeOwn ==
    /\ [](\A l \in Lines : hpc[l] = "wake" => ENABLED HandlerWake(l))
    /\ [][\A l \in Lines :
            /\ (hpc[l] = "idle" /\ hpc'[l] = "wake") =>
                  /\ irqPending[l] /\ ~irqPending'[l]
                  /\ \A o \in Lines \ {l} : irqPending'[o] = irqPending[o]
                  /\ queue' = queue /\ wpc' = wpc /\ fired' = fired
                  /\ rx' = rx /\ ier' = ier /\ tx' = tx
            /\ (hpc[l] = "wake" /\ hpc'[l] = "idle") =>
                  /\ queue'[l] = {}
                  /\ \A o \in Lines \ {l} : queue'[o] = queue[o]
                  /\ \A w \in Lines :
                        wpc'[w] = IF w \in queue[l] THEN "select" ELSE wpc[w]
                  /\ irqPending' = irqPending
                  /\ rx' = rx /\ ier' = ier /\ tx' = tx
            /\ (queue[l] # {} /\ queue'[l] = {}) =>
                  (hpc[l] = "wake" /\ hpc'[l] = "idle")]_vars

\* A handler has acknowledged and woken its own worker while the other
\* line's worker is still waiting on its own queue.
C13_Witness ==
    \E l \in Lines :
        /\ fired[l] = 1 /\ hpc[l] = "idle" /\ wpc[l] = "select"
        /\ \A o \in Lines \ {l} : queue[o] = {o} /\ wpc[o] = "blocked"

\* C14: once nothing more can happen on a line whose worker has been woken,
\* the worker has passed at least one byte to tty_input_process since its
\* last wake and, the selected port reporting no more data, is Suspended
\* in sleep_on again.
C14_ForwardsThenSuspends ==
    \A l \in Lines :
        (Settled(l) /\ wakes[l] > 0) => (fwd[l] >= 1 /\ wpc[l] = "blocked")

\* C15: the reset command is on its way or written only with the null IDT
\* loaded and with the latest status read showing bit 0x02 clear; as long
\* as every status read has shown the bit set, arch_reboot is still in its
\* loop, has written nothing to port 0x64 and has not returned.
C15_ResetAfterIdtAndReady ==
    /\ (rpc \in {"reset", "written", "returned"} \/ kbcCmd # <<>>) =>
          (idtr # 0 /\ BitAnd(out, 2) = 0)
    /\ (rpc # "idle" /\ BitAnd(out, 2) # 0) =>
          (rpc = "poll" /\ kbcCmd = <<>> /\ retval = "none")
    /\ \A k \in 1..Len(kbcCmd) : kbcCmd[k] = <<KBC_PORT, KBC_RESET>>

\* The reset command has just been written, after a status read of 0x01.
C15_Witness ==
    /\ rpc = "written"
    /\ kbcCmd = << <<KBC_PORT, KBC_RESET>> >>
    /\ idtr # 0
    /\ out = 1

\* x + y modulo 2^64, the carry passed from limb to limb.
Add64(x, y) ==
    LET s4 == x[4] + y[4]
        s3 == x[3] + y[3] + s4 \div Limb
        s2 == x[2] + y[2] + s3 \div Limb
        s1 == x[1] + y[1] + s2 \div Limb
    IN  <<s1 % Limb, s2 % Limb, s3 % Limb, s4 % Limb>>

\* x <= y as unsigned 64-bit values.
Le64(x, y) == ~Lt64(y, x)

\* new_rsp + 8 <= old_rsp - 128, both sides taken modulo 2^64.
SlotBelowRedZone ==
    Le64(Add64(cpu.rsp, U64(0, 0, 0, 8)), Sub64(syscall_rsp, U64(0, 0, 0, 128)))

\* C16 as stated: for every recorded stack pointer the 8-byte sentinel slot
\* ends at or below the start of the 128-byte red zone,
\* new_rsp + 8 <= old_rsp - 128 in 64-bit wrap-around arithmetic.
C16_SlotBelowRedZone ==
    call.op = "arch_enter_signal_handler" => SlotBelowRedZone

\* C16 as amended: from a recorded stack pointer of 136 up nothing wraps,
\* the inequality holds and the slot is below the recorded pointer; for
\* 128..135 the inequality fails, only the left side having wrapped; below
\* 128 it holds with both sides wrapped, the slot lying above the recorded
\* pointer at the top of the address space.
C16_SlotBelowRedZoneExcept128To135 ==
    call.op = "arch_enter_signal_handler" =>
        IF ~Lt64(syscall_rsp, U64(0, 0, 0, 136))
        THEN SlotBelowRedZone /\ Lt64(cpu.rsp, syscall_rsp)
        ELSE IF ~Lt64(syscall_rsp, U64(0, 0, 0, 128))
        THEN ~SlotBelowRedZone /\ Lt64(syscall_rsp, cpu.rsp)
        ELSE SlotBelowRedZone /\ Lt64(syscall_rsp, cpu.rsp)

\* The tightest delivery: a recorded stack pointer of 136 puts the slot at
\* 0..7, ending exactly where the red zone begins.
C16_Witness ==
    /\ call.op = "arch_enter_signal_handler"
    /\ syscall_rsp = U64(0, 0, 0, 136)
    /\ cpu.rsp = U64(0, 0, 0, 0)
    /\ <<cpu.rsp, SENTINEL>> \in umem

====
